---- MODULE Spec2Model ----
(***************************************************************************)
(* AlphaSquaredTrader.execute_strategy (alphasquared_trader.py) and        *)
(* SNSNotifier.send_notification (sns_notifier.py) as a state machine.     *)
(*                                                                         *)
(* Two trader objects are constructed over the same risk and exchange      *)
(* clients, each with its own sns_topic_arn.  execute_strategy is invoked  *)
(* once on each, one after the other (the code is synchronous).  The       *)
(* collaborators are the environment: what each of them answers (a value,  *)
(* None, or an exception of class Exception) is chosen when it is first    *)
(* called and answered again the same way afterwards, so that the runs of  *)
(* differently configured traders can be compared call by call.            *)
(*                                                                         *)
(* Python values: None and objects are records with a "tag"; strings that  *)
(* the code takes apart or builds (product ids, actions, decimal strings)  *)
(* are sequences of one-character strings; a Decimal is its coefficient c  *)
(* and its number of decimal places e (value c / 10^e, exponent -e).       *)
(* Amounts are non-negative and far below the 28 digits of the decimal     *)
(* context, so no context rounding applies.                                *)
(***************************************************************************)
EXTENDS Integers, Sequences, FiniteSets, TLC

\* Largest number of decimal places of the increments the exchange reports.
MaxPlaces == 2

----------------------------------------------------------------------------
(* Python values *)

None == [tag |-> "None"]
Unbound == [tag |-> "unbound"]
PyStr(s) == [tag |-> "str", s |-> s]
PyInt(n) == [tag |-> "int", n |-> n]
Dec(c, e) == [tag |-> "Decimal", c |-> c, e |-> e]

RECURSIVE Pow10(_)
Pow10(k) == IF k = 0 THEN 1 ELSE 10 * Pow10(k - 1)

DigitChars == <<"0", "1", "2", "3", "4", "5", "6", "7", "8", "9">>
DigitVal(ch) == (CHOOSE i \in 1..10 : DigitChars[i] = ch) - 1

\* str(n) of a non-negative int
RECURSIVE NatStr(_)
NatStr(n) == IF n < 10 THEN <<DigitChars[n + 1]>>
             ELSE NatStr(n \div 10) \o <<DigitChars[(n % 10) + 1]>>

\* the number a string of digits denotes
RECURSIVE StrNat(_)
StrNat(s) == IF Len(s) = 0 THEN 0
             ELSE StrNat(SubSeq(s, 1, Len(s) - 1)) * 10 + DigitVal(s[Len(s)])

Zeros(k) == [i \in 1..k |-> "0"]

\* str(Decimal): plain notation, the coefficient with e digits after the point
DecimalToStr(d) ==
    LET ds     == NatStr(d.c)
        padded == IF Len(ds) <= d.e THEN Zeros(d.e + 1 - Len(ds)) \o ds ELSE ds
        n      == Len(padded)
    IN  IF d.e = 0 THEN padded
        ELSE SubSeq(padded, 1, n - d.e) \o <<".">> \o SubSeq(padded, n - d.e + 1, n)

\* Decimal(s) of a decimal string: the digits are the coefficient, the digits
\* after the point fix the exponent
DecimalFromStr(s) ==
    LET dots == {i \in 1..Len(s) : s[i] = "."}
    IN  IF dots = {} THEN Dec(StrNat(s), 0)
        ELSE LET i == CHOOSE j \in dots : TRUE
             IN  Dec(StrNat(SubSeq(s, 1, i - 1) \o SubSeq(s, i + 1, Len(s))), Len(s) - i)

\* Decimal(value) of an int
DecimalFromInt(v) == Dec(v.n, 0)

DecMul(a, b) == Dec(a.c * b.c, a.e + b.e)
\* a / Decimal('100'), exact
DecDiv100(a) == Dec(a.c, a.e + 2)
DecGT(a, b) == a.c * Pow10(b.e) > b.c * Pow10(a.e)

\* a.quantize(exp, rounding=ROUND_DOWN): the result takes the EXPONENT of exp
\* (its coefficient plays no part) and the digits beyond it are dropped.
Quantize(a, exp) ==
    IF exp.e >= a.e THEN Dec(a.c * Pow10(exp.e - a.e), exp.e)
    ELSE Dec(a.c \div Pow10(a.e - exp.e), exp.e)

\* s.split(sep)
RECURSIVE Split(_, _)
Split(s, sep) ==
    LET at == {i \in 1..Len(s) : s[i] = sep}
    IN  IF at = {} THEN <<s>>
        ELSE LET i == CHOOSE j \in at : \A k \in at : j <= k
             IN  <<SubSeq(s, 1, i - 1)>> \o Split(SubSeq(s, i + 1, Len(s)), sep)

ToLower == ("B" :> "b") @@ ("U" :> "u") @@ ("Y" :> "y") @@ ("S" :> "s")
           @@ ("E" :> "e") @@ ("L" :> "l")
\* s.lower()
Lower_identity(s) == s
Lower(s) == [i \in 1..Len(s) |-> IF s[i] \in DOMAIN ToLower THEN ToLower[s[i]] ELSE s[i]]

----------------------------------------------------------------------------
(* The collaborators' answers *)

Raise == [tag |-> "raise"]
Ret(v) == [tag |-> "return", val |-> v]
Unset == [tag |-> "unset"]

\* the caller's traders, in the order it invokes them
TraderOrder == <<"t1", "t2">>
Traders == {TraderOrder[i] : i \in 1..Len(TraderOrder)}
\* sns_topic_arn: absent, empty, or a topic
Arns == {None, PyStr(<<>>), PyStr(<<"a", "r", "n">>)}

ProductIds == {<<"B", "-", "U">>, <<"B", "U">>, <<"B", "-", "U", "-", "X">>}
StrategyNames == {<<"s">>}
Inputs == {Ret([product_id |-> p, strategy_name |-> n]) : p \in ProductIds, n \in StrategyNames}

BuyStr == <<"b", "u", "y">>
SellStr == <<"s", "e", "l", "l">>
Actions == {PyStr(BuyStr), PyStr(<<"B", "U", "Y">>), PyStr(SellStr),
            PyStr(<<"S", "e", "l", "l">>), PyStr(<<"h", "o", "l", "d">>), None}
Magnitudes == {PyInt(-10), PyInt(0), PyInt(10), PyInt(50), None}

RiskResponses == {Raise, Ret(None), Ret(PyInt(40))}
StrategyResponses == {Raise, Ret(None)}
                     \cup {Ret([action |-> a, value |-> v]) : a \in Actions, v \in Magnitudes}
BuyOrder == [tag |-> "Order", id |-> "b1", size |-> "0.1", price |-> "99.5"]
SellOrder == [tag |-> "Order", id |-> "s1", limit_price |-> "100.5"]
BuyResponses == {Raise, Ret(None), Ret(BuyOrder)}
SellResponses == {Raise, Ret(None), Ret(SellOrder)}
Balances == {Dec(10, 0), Dec(1, 3), Dec(1, 1), Dec(123, 2)}
BalanceResponses == {Raise, Ret(None)} \cup {Ret(PyStr(DecimalToStr(b))) : b \in Balances}
\* base increments 1, 0.1, 0.01, ... and 5, 0.5, 0.05, ...; quote increments
\* (price ticks) at the finest of these scales
BaseIncrements == {Dec(m, k) : m \in {1, 5}, k \in 0..MaxPlaces}
QuoteIncrements == {Dec(m, MaxPlaces) : m \in {1, 5}}
Prices == {Dec(100, 0), Dec(9999, 2)}
ProductResponses ==
    {Raise, Ret(None)}
    \cup {Ret([base_increment  |-> DecimalToStr(b),
               quote_increment |-> DecimalToStr(q),
               price           |-> DecimalToStr(p)]) :
            b \in BaseIncrements, q \in QuoteIncrements, p \in Prices}
GenIdResponses == {Raise, Ret(None), Ret(PyStr(<<"i", "d">>))}
PublishResponses == {Raise, Ret(None), Ret([tag |-> "PublishResponse", MessageId |-> "m1"])}

Sites == {"input", "risk", "strategy", "buy", "balance", "product", "gen_id", "sell", "publish"}

----------------------------------------------------------------------------
VARIABLES
    sns_topic_arn,  \* [Traders -> Arns]: the constructor's argument
    sns_notifier,   \* [Traders -> ...]: self.sns_notifier, an SNSNotifier or None
    responses,      \* what each collaborator has answered so far
    cur,            \* the trader whose execute_strategy is running, or "idle"
    pc,             \* the position of the running invocation
    frame,          \* its arguments and local variables
    calls,          \* the collaborator calls it has made, in order
    log,            \* the log entries it has written, in order
    result          \* [Traders -> ...]: how each trader's invocation ended

vars == <<sns_topic_arn, sns_notifier, responses, cur, pc, frame, calls, log, result>>

EmptyFrame ==
    [product_id |-> Unbound, strategy_name |-> Unbound, asset |-> Unbound,
     base_currency |-> Unbound, current_risk |-> Unbound, action |-> Unbound,
     value |-> Unbound, order |-> Unbound, balance |-> Unbound,
     base_increment |-> Unbound, quote_increment |-> Unbound,
     current_price |-> Unbound, sell_amount |-> Unbound, limit_price |-> Unbound,
     client_order_id |-> Unbound, response |-> Unbound]

Call(fn, args) == [fn |-> fn, args |-> args]

\* what the collaborator at `site` may answer now
Answers(site, dom) == IF responses[site] = Unset THEN dom ELSE {responses[site]}
Answered(site, r) == responses' = [responses EXCEPT ![site] = r]

\* bool(x) of None or a string
Truthy(x) == x # None /\ x # PyStr(<<>>)

\* __init__: self.sns_notifier = SNSNotifier(sns_topic_arn) if sns_topic_arn else None
MakeNotifier_if_not_none(arn) ==
    IF arn # None THEN [tag |-> "SNSNotifier", sns_topic_arn |-> arn] ELSE None
MakeNotifier(arn) ==
    IF Truthy(arn) THEN [tag |-> "SNSNotifier", sns_topic_arn |-> arn] ELSE None

Init ==
    /\ sns_topic_arn \in [Traders -> Arns]
    /\ sns_notifier = [t \in Traders |-> MakeNotifier(sns_topic_arn[t])]
    /\ responses = [s \in Sites |-> Unset]
    /\ cur = "idle"
    /\ pc = "idle"
    /\ frame = EmptyFrame
    /\ calls = <<>>
    /\ log = <<>>
    /\ result = [t \in Traders |-> Unbound]

----------------------------------------------------------------------------
(* Control flow *)

BuySites == {"buy_order", "buy_notify", "buy_log"}
SellSites == {"sell_balance", "sell_product", "sell_guard", "sell_gen_id",
              "sell_order", "sell_notify", "sell_log"}

\* Where an Exception raised at `site` is handled: _execute_buy has its own
\* try/except, everything else runs under execute_strategy's.
HandlerFor_sell_unguarded(site) ==
    IF site \in BuySites THEN "buy_except"
    ELSE IF site \in SellSites THEN "propagate"
    ELSE "outer_except"
HandlerFor(site) == IF site \in BuySites THEN "buy_except" ELSE "outer_except"

\* if value <= 0
NoAction_negative_only(value) == value.n < 0
NoAction(value) == value.n <= 0

\* if action.lower() == 'buy' ... elif action.lower() == 'sell' ... else
DispatchTarget(action) ==
    IF Lower(action.s) = BuyStr THEN "buy_order"
    ELSE IF Lower(action.s) = SellStr THEN "sell_balance"
    ELSE "unknown"

\* if not order
OrderMissing(order) == order = None

\* reading an attribute of the order (order.size, order.limit_price) raises
\* AttributeError when the order is None
AttrRaises_never(o) == FALSE
AttrRaises(o) == o = None
Attr(o, name) == IF name \in DOMAIN o THEN o[name] ELSE None

\* if sell_amount > base_increment
SellGuard_at_least(sell_amount, base_increment) == ~DecGT(base_increment, sell_amount)
SellGuard(sell_amount, base_increment) == DecGT(sell_amount, base_increment)

\* after _execute_buy's except block the function returns
BuyExceptNext_retry == "buy_order"
BuyExceptNext == "return"

\* the statement after the call of _send_trade_notification: the log of the
\* order placed, whatever became of the notification
NextAfterNotify_only_if_delivered(site, delivered) ==
    IF ~delivered THEN "return"
    ELSE IF site = "buy_notify" THEN "buy_log" ELSE "sell_log"
NextAfterNotify(site, delivered) == IF site = "buy_notify" THEN "buy_log" ELSE "sell_log"

\* SNSNotifier.send_notification: the transport's response, or None when publish raises
SendNotification(r) == IF r = Raise THEN None ELSE r.val

Running(at) == cur # "idle" /\ pc = at
Logged(entry) == log' = Append(log, entry)
Called(fn, args) == calls' = Append(calls, Call(fn, args))
Keep == UNCHANGED <<sns_topic_arn, sns_notifier, cur, result>>

----------------------------------------------------------------------------
(* execute_strategy *)

\* the caller invokes trader.execute_strategy(product_id, strategy_name)
Invoke(t) ==
    /\ cur = "idle"
    /\ result[t] = Unbound
    /\ \A i, j \in 1..Len(TraderOrder) :
           (i < j /\ TraderOrder[j] = t) => result[TraderOrder[i]] # Unbound
    /\ \E in \in Answers("input", Inputs) :
        /\ Answered("input", in)
        /\ frame' = [EmptyFrame EXCEPT !.product_id = in.val.product_id,
                                       !.strategy_name = in.val.strategy_name]
    /\ cur' = t
    /\ pc' = "split"
    /\ calls' = <<>>
    /\ log' = <<>>
    /\ UNCHANGED <<sns_topic_arn, sns_notifier, result>>

\* asset, base_currency = product_id.split('-')
SplitProductId ==
    /\ Running("split")
    /\ LET parts == Split(frame.product_id, "-")
       IN  IF Len(parts) = 2
           THEN /\ frame' = [frame EXCEPT !.asset = parts[1], !.base_currency = parts[2]]
                /\ pc' = "risk"
           ELSE /\ pc' = HandlerFor("split")
                /\ UNCHANGED frame
    /\ UNCHANGED <<responses, calls, log>>
    /\ Keep

\* current_risk = self.alphasquared_client.get_current_risk(asset)
GetCurrentRisk ==
    /\ Running("risk")
    /\ \E r \in Answers("risk", RiskResponses) :
        /\ Answered("risk", r)
        /\ Called("get_current_risk", [asset |-> frame.asset])
        /\ IF r = Raise
           THEN /\ pc' = HandlerFor("risk")
                /\ UNCHANGED <<frame, log>>
           ELSE /\ frame' = [frame EXCEPT !.current_risk = r.val]
                /\ Logged("current_risk")
                /\ pc' = "strategy"
    /\ Keep

\* action, value = self.alphasquared_client.get_strategy_value_for_risk(...)
\* and the log line that reads action.upper()
GetStrategyValueForRisk ==
    /\ Running("strategy")
    /\ \E r \in Answers("strategy", StrategyResponses) :
        /\ Answered("strategy", r)
        /\ Called("get_strategy_value_for_risk",
                  [strategy_name |-> frame.strategy_name, current_risk |-> frame.current_risk])
        /\ IF r = Raise \/ r.val = None
           THEN /\ pc' = HandlerFor("strategy")
                /\ UNCHANGED <<frame, log>>
           ELSE /\ frame' = [frame EXCEPT !.action = r.val.action, !.value = r.val.value]
                /\ IF r.val.action = None
                   THEN /\ pc' = HandlerFor("strategy")
                        /\ UNCHANGED log
                   ELSE /\ Logged("strategy_suggests")
                        /\ pc' = "dispatch"
    /\ Keep

\* the test of value and the dispatch on action.lower()
Dispatch ==
    /\ Running("dispatch")
    /\ IF frame.value = None
       THEN /\ pc' = HandlerFor("dispatch")
            /\ UNCHANGED log
       ELSE IF NoAction(frame.value)
       THEN /\ Logged("no_action")
            /\ pc' = "return"
       ELSE IF DispatchTarget(frame.action) = "unknown"
       THEN /\ Logged("unknown_action")
            /\ pc' = "return"
       ELSE /\ pc' = DispatchTarget(frame.action)
            /\ UNCHANGED log
    /\ UNCHANGED <<responses, frame, calls>>
    /\ Keep

\* except Exception as e: in execute_strategy
ExceptExecuteStrategy ==
    /\ Running("outer_except")
    /\ Logged("error_in_execute_strategy")
    /\ pc' = "return"
    /\ UNCHANGED <<responses, frame, calls>>
    /\ Keep

\* execute_strategy ends: it returns to the caller, or an exception leaves it
Return ==
    /\ cur # "idle"
    /\ pc \in {"return", "propagate"}
    /\ result' = [result EXCEPT ![cur] =
                    [outcome |-> IF pc = "return" THEN "returned" ELSE "raised",
                     calls |-> calls, log |-> log]]
    /\ cur' = "idle"
    /\ pc' = "idle"
    /\ frame' = EmptyFrame
    /\ calls' = <<>>
    /\ log' = <<>>
    /\ UNCHANGED <<sns_topic_arn, sns_notifier, responses>>

----------------------------------------------------------------------------
(* _execute_buy *)

\* order = self.coinbase_client.fiat_limit_buy(product_id, str(value),
\*                                             price_multiplier="0.995")
\* and the test of the order returned
FiatLimitBuy ==
    /\ Running("buy_order")
    /\ \E r \in Answers("buy", BuyResponses) :
        /\ Answered("buy", r)
        /\ Called("fiat_limit_buy",
                  [product_id |-> frame.product_id,
                   fiat_amount |-> NatStr(frame.value.n),
                   price_multiplier |-> "0.995"])
        /\ IF r = Raise
           THEN /\ pc' = HandlerFor("buy_order")
                /\ UNCHANGED <<frame, log>>
           ELSE /\ frame' = [frame EXCEPT !.order = r.val]
                /\ IF OrderMissing(r.val)
                   THEN /\ Logged("buy_returned_none")
                        /\ pc' = "return"
                   ELSE /\ pc' = "buy_notify"
                        /\ UNCHANGED log
    /\ Keep

\* except Exception as e: in _execute_buy
ExceptExecuteBuy ==
    /\ Running("buy_except")
    /\ Logged("error_placing_buy_order")
    /\ pc' = BuyExceptNext
    /\ UNCHANGED <<responses, frame, calls>>
    /\ Keep

----------------------------------------------------------------------------
(* _execute_sell *)

\* balance = Decimal(self.coinbase_client.get_crypto_balance(asset))
GetCryptoBalance ==
    /\ Running("sell_balance")
    /\ \E r \in Answers("balance", BalanceResponses) :
        /\ Answered("balance", r)
        /\ Called("get_crypto_balance", [asset |-> frame.asset])
        /\ IF r = Raise \/ r.val = None
           THEN /\ pc' = HandlerFor("sell_balance")
                /\ UNCHANGED <<frame, log>>
           ELSE /\ frame' = [frame EXCEPT !.balance = DecimalFromStr(r.val.s)]
                /\ Logged("balance")
                /\ pc' = "sell_product"
    /\ Keep

\* sell_amount = (balance * Decimal(value) / Decimal('100'))
\*                   .quantize(base_increment, rounding=ROUND_DOWN)
SellAmount(balance, value, base_increment) ==
    Quantize(DecDiv100(DecMul(balance, DecimalFromInt(value))), base_increment)

\* limit_price = (current_price * Decimal('1.005'))
\*                   .quantize(quote_increment, rounding=ROUND_DOWN)
LimitPrice(current_price, quote_increment) ==
    Quantize(DecMul(current_price, DecimalFromStr(<<"1", ".", "0", "0", "5">>)), quote_increment)

\* product_details = self.coinbase_client.get_product(product_id), its three
\* fields as Decimals, and sell_amount
GetProduct ==
    /\ Running("sell_product")
    /\ \E r \in Answers("product", ProductResponses) :
        /\ Answered("product", r)
        /\ Called("get_product", [product_id |-> frame.product_id])
        /\ IF r = Raise \/ r.val = None
           THEN /\ pc' = HandlerFor("sell_product")
                /\ UNCHANGED <<frame, log>>
           ELSE /\ LET base_increment == DecimalFromStr(r.val.base_increment)
                   IN  frame' = [frame EXCEPT
                          !.base_increment = base_increment,
                          !.quote_increment = DecimalFromStr(r.val.quote_increment),
                          !.current_price = DecimalFromStr(r.val.price),
                          !.sell_amount = SellAmount(frame.balance, frame.value, base_increment)]
                /\ log' = log \o <<"price", "sell_amount">>
                /\ pc' = "sell_guard"
    /\ Keep

\* if sell_amount > base_increment: limit_price = ... else: "too small"
CheckSellAmount ==
    /\ Running("sell_guard")
    /\ IF SellGuard(frame.sell_amount, frame.base_increment)
       THEN /\ frame' = [frame EXCEPT
                  !.limit_price = LimitPrice(frame.current_price, frame.quote_increment)]
            /\ pc' = "sell_gen_id"
            /\ UNCHANGED log
       ELSE /\ Logged("sell_too_small")
            /\ pc' = "return"
            /\ UNCHANGED frame
    /\ UNCHANGED <<responses, calls>>
    /\ Keep

\* client_order_id=self.coinbase_client._order_service._generate_client_order_id()
GenerateClientOrderId ==
    /\ Running("sell_gen_id")
    /\ \E r \in Answers("gen_id", GenIdResponses) :
        /\ Answered("gen_id", r)
        /\ Called("_generate_client_order_id", [none |-> None])
        /\ IF r = Raise
           THEN /\ pc' = HandlerFor("sell_gen_id")
                /\ UNCHANGED frame
           ELSE /\ frame' = [frame EXCEPT !.client_order_id = r.val]
                /\ pc' = "sell_order"
    /\ UNCHANGED log
    /\ Keep

\* order = self.coinbase_client.limit_order_gtc_sell(client_order_id=...,
\*     product_id=product_id, base_size=str(sell_amount), limit_price=str(limit_price))
LimitOrderGtcSell ==
    /\ Running("sell_order")
    /\ \E r \in Answers("sell", SellResponses) :
        /\ Answered("sell", r)
        /\ Called("limit_order_gtc_sell",
                  [client_order_id |-> frame.client_order_id,
                   product_id |-> frame.product_id,
                   base_size |-> DecimalToStr(frame.sell_amount),
                   limit_price |-> DecimalToStr(frame.limit_price)])
        /\ IF r = Raise
           THEN /\ pc' = HandlerFor("sell_order")
                /\ UNCHANGED frame
           ELSE /\ frame' = [frame EXCEPT !.order = r.val]
                /\ pc' = "sell_notify"
    /\ UNCHANGED log
    /\ Keep

----------------------------------------------------------------------------
(* _send_trade_notification and SNSNotifier.send_notification *)

\* the arguments of the call of _send_trade_notification, read before it
NotificationArgs(site) ==
    IF site = "buy_notify"
    THEN [trade_type |-> "Buy", asset |-> Split(frame.product_id, "-")[1],
          amount |-> Attr(frame.order, "size"), price |-> Attr(frame.order, "price")]
    ELSE [trade_type |-> "Sell", asset |-> frame.asset,
          amount |-> DecimalToStr(frame.sell_amount),
          price |-> Attr(frame.order, "limit_price")]

\* self._send_trade_notification(...): nothing without a notifier; with one,
\* send_notification publishes and turns a failure of the transport into None
SendTradeNotification ==
    /\ cur # "idle"
    /\ pc \in {"buy_notify", "sell_notify"}
    /\ IF AttrRaises(frame.order)
       THEN /\ pc' = HandlerFor(pc)
            /\ UNCHANGED <<responses, frame, calls, log>>
       ELSE IF sns_notifier[cur] = None
       THEN /\ pc' = NextAfterNotify(pc, FALSE)
            /\ UNCHANGED <<responses, frame, calls, log>>
       ELSE \E r \in Answers("publish", PublishResponses) :
            /\ Answered("publish", r)
            /\ Called("publish", [TopicArn |-> sns_notifier[cur].sns_topic_arn,
                                  Message |-> NotificationArgs(pc)])
            /\ frame' = [frame EXCEPT !.response = SendNotification(r)]
            /\ log' = log \o <<IF r = Raise THEN "sns_publish_failed" ELSE "sns_publish_ok",
                               "sns_notification_sent">>
            /\ pc' = NextAfterNotify(pc, SendNotification(r) # None)
    /\ Keep

\* logger.info("Buy limit order placed ...") / logger.info("Sell limit order placed ...")
LogOrderPlaced ==
    /\ cur # "idle"
    /\ pc \in {"buy_log", "sell_log"}
    /\ Logged(IF pc = "buy_log" THEN "buy_order_placed" ELSE "sell_order_placed")
    /\ pc' = "return"
    /\ UNCHANGED <<responses, frame, calls>>
    /\ Keep

----------------------------------------------------------------------------
Next ==
    \/ \E t \in Traders : Invoke(t)
    \/ SplitProductId
    \/ GetCurrentRisk
    \/ GetStrategyValueForRisk
    \/ Dispatch
    \/ ExceptExecuteStrategy
    \/ Return
    \/ FiatLimitBuy
    \/ ExceptExecuteBuy
    \/ GetCryptoBalance
    \/ GetProduct
    \/ CheckSellAmount
    \/ GenerateClientOrderId
    \/ LimitOrderGtcSell
    \/ SendTradeNotification
    \/ LogOrderPlaced

Spec == Init /\ [][Next]_vars

----------------------------------------------------------------------------
(* Vocabulary of the properties *)

Done(t) == result[t] # Unbound
Fns(cs) == {cs[i].fn : i \in 1..Len(cs)}
CountOf(cs, fns) == Cardinality({i \in 1..Len(cs) : cs[i].fn \in fns})
Has(seq, x) == \E i \in 1..Len(seq) : seq[i] = x
LookupFns == {"get_current_risk", "get_strategy_value_for_risk"}
OrderFns == {"fiat_limit_buy", "limit_order_gtc_sell"}
\* every call trace there is: the running invocation's and the finished ones'
Traces == {calls} \cup {result[t].calls : t \in {u \in Traders : Done(u)}}

\* the directive the strategy lookup answered with, when it answered with one
HasDirective ==
    /\ responses["strategy"].tag = "return"
    /\ responses["strategy"].val # None
    /\ responses["strategy"].val.value # None
Magnitude == responses["strategy"].val.value.n
ActionAnswered == responses["strategy"].val.action

UpperOf == ("b" :> "B") @@ ("u" :> "U") @@ ("y" :> "Y") @@ ("s" :> "S")
           @@ ("e" :> "E") @@ ("l" :> "L")
IsCasingOf(s, word) ==
    /\ Len(s) = Len(word)
    /\ \A i \in 1..Len(word) : s[i] = word[i] \/ s[i] = UpperOf[word[i]]

\* a - b >= 0, a - b < c and a = k * c, on the values of Decimals
ValLE(a, b) == a.c * Pow10(b.e) <= b.c * Pow10(a.e)
IsFloorTo(x, exact, inc) ==
    LET m  == CHOOSE k \in {x.e, exact.e, inc.e} : k >= x.e /\ k >= exact.e /\ k >= inc.e
        xv == x.c * Pow10(m - x.e)
        ev == exact.c * Pow10(m - exact.e)
        iv == inc.c * Pow10(m - inc.e)
    IN  /\ xv % iv = 0
        /\ xv <= ev
        /\ ev - xv < iv

----------------------------------------------------------------------------
(* C1 *)

\* C1: every invocation of execute_strategy that has ended has returned
\* normally to its caller, whatever the collaborators did, and no position of
\* a running invocation is one where an exception leaves execute_strategy.
Thm_C1_NeverRaises ==
    /\ pc # "propagate"
    /\ \A t \in Traders : Done(t) => result[t].outcome = "returned"

\* an invocation on the sell path ended after limit_order_gtc_sell raised
Wit_C1_SellRaisedAndReturned ==
    \E t \in Traders :
        /\ Done(t)
        /\ responses["sell"] = Raise
        /\ "limit_order_gtc_sell" \in Fns(result[t].calls)
        /\ Has(result[t].log, "error_in_execute_strategy")
        /\ result[t].outcome = "returned"

(* C2 *)

\* C2: when the directive's magnitude is <= 0, whatever the action, the only
\* collaborator calls made are the risk lookup and the strategy lookup: no
\* exchange call and no notification.
Thm_C2_NoCallsForNonPositiveMagnitude ==
    (HasDirective /\ Magnitude <= 0) =>
        \A cs \in Traces : Fns(cs) \subseteq LookupFns

\* an invocation ended with action buy and magnitude 0
Wit_C2_ZeroMagnitudeBuy ==
    \E t \in Traders :
        /\ Done(t)
        /\ HasDirective /\ Magnitude = 0
        /\ ActionAnswered = PyStr(BuyStr)
        /\ Has(result[t].log, "no_action")

(* C3 *)

\* C3: on every path, error paths included, an invocation makes at most one
\* order-placement call (fiat_limit_buy or limit_order_gtc_sell).
Thm_C3_AtMostOneOrderCall ==
    \A cs \in Traces : CountOf(cs, OrderFns) <= 1

\* an invocation ended after its one buy call raised
Wit_C3_BuyRaisedOnce ==
    \E t \in Traders :
        /\ Done(t)
        /\ responses["buy"] = Raise
        /\ CountOf(result[t].calls, OrderFns) = 1
        /\ Has(result[t].log, "error_placing_buy_order")

(* C4 *)

SellAmountComputed == cur # "idle" /\ frame.sell_amount # Unbound
ExactSellAmount == DecDiv100(DecMul(frame.balance, DecimalFromInt(frame.value)))

\* C4: on the sell path the computed sell_amount is the floor of
\* balance * magnitude / 100 to the base increment, for every base increment,
\* those that are not a power of ten included: a multiple of base_increment,
\* not above balance * magnitude / 100 and less than one increment below it.
Claim_C4_SellAmountIsFloorToBaseIncrement ==
    SellAmountComputed =>
        IsFloorTo(frame.sell_amount, ExactSellAmount, frame.base_increment)

(* C5 *)

SellPathDecided == cur # "idle" /\ pc = "return" /\ frame.sell_amount # Unbound
SellAmountAboveIncrement == DecGT(frame.sell_amount, frame.base_increment)
SellCalled == "limit_order_gtc_sell" \in Fns(calls)
NothingAfterSizing ==
    Fns(calls) \cap {"limit_order_gtc_sell", "_generate_client_order_id", "publish"} = {}

\* C5 as stated: when the sell path has run its course, limit_order_gtc_sell
\* was called if and only if sell_amount > base_increment, and with
\* sell_amount <= base_increment there was no order call, no client order id
\* and no notification.
Claim_C5_SellCalledIffAboveIncrement ==
    SellPathDecided =>
        /\ SellCalled <=> SellAmountAboveIncrement
        /\ ~SellAmountAboveIncrement => NothingAfterSizing

\* C5 as amended: limit_order_gtc_sell was called if and only if
\* sell_amount > base_increment and the client order id generator returned
\* without raising; with sell_amount <= base_increment (one increment exactly
\* and zero included) there was no order call, no client order id and no
\* notification.
Thm_C5_SellCalledIffAboveIncrementAndIdGenerated ==
    SellPathDecided =>
        /\ SellCalled <=> (SellAmountAboveIncrement /\ responses["gen_id"].tag = "return")
        /\ ~SellAmountAboveIncrement => NothingAfterSizing

\* the sell path ended with sell_amount exactly one base increment
Wit_C5_ExactlyOneIncrement ==
    /\ SellPathDecided
    /\ frame.sell_amount.c > 0
    /\ ValLE(frame.sell_amount, frame.base_increment)
    /\ ValLE(frame.base_increment, frame.sell_amount)
    /\ Has(log, "sell_too_small")
    /\ ~SellCalled

(* C6 *)

SellOrderPlaced == cur # "idle" /\ SellCalled
SellCallArgs == calls[CHOOSE i \in 1..Len(calls) : calls[i].fn = "limit_order_gtc_sell"].args
ExactLimitPrice == DecMul(frame.current_price, Dec(1005, 3))

\* C6: whenever a sell order is placed, the limit_price passed is
\* floor(current_price * 1.005, quote_increment), for every current_price and
\* quote_increment, and the base_size passed is the computed sell_amount.
Claim_C6_LimitPriceIsFloorToQuoteIncrement ==
    SellOrderPlaced =>
        /\ IsFloorTo(DecimalFromStr(SellCallArgs.limit_price), ExactLimitPrice,
                     frame.quote_increment)
        /\ DecimalFromStr(SellCallArgs.base_size) = frame.sell_amount

\* the quantize of the code does floor to increments that are a power of ten
IsPowerOfTen(inc) == inc.c = 1
Fact_FloorToPowerOfTenIncrements ==
    /\ (SellAmountComputed /\ IsPowerOfTen(frame.base_increment)) =>
           IsFloorTo(frame.sell_amount, ExactSellAmount, frame.base_increment)
    /\ (SellOrderPlaced /\ IsPowerOfTen(frame.quote_increment)) =>
           IsFloorTo(DecimalFromStr(SellCallArgs.limit_price), ExactLimitPrice,
                     frame.quote_increment)

(* C7 *)

\* an order-placement call of the trace came back with an order (not None,
\* not an exception) before position i
OrderReturnedBefore(cs, i) ==
    \E j \in 1..(i - 1) :
        \/ /\ cs[j].fn = "fiat_limit_buy"
           /\ responses["buy"].tag = "return" /\ responses["buy"].val # None
        \/ /\ cs[j].fn = "limit_order_gtc_sell"
           /\ responses["sell"].tag = "return" /\ responses["sell"].val # None

\* C7: a notification is sent only after an order-placement call of the same
\* invocation has returned a non-null order: every publish of a trace is
\* preceded by such a call, and _send_trade_notification has been gone
\* through only with an order in hand.
Thm_C7_NotifyOnlyAfterOrderReturned ==
    /\ \A cs \in Traces : \A i \in 1..Len(cs) :
           cs[i].fn = "publish" => OrderReturnedBefore(cs, i)
    /\ (cur # "idle" /\ pc \in {"buy_log", "sell_log"}) =>
           frame.order \notin {None, Unbound}

\* a trader with a notifier ended after limit_order_gtc_sell returned None
Wit_C7_SellReturnedNoneNoNotification ==
    \E t \in Traders :
        /\ Done(t)
        /\ sns_notifier[t] # None
        /\ responses["sell"] = Ret(None)
        /\ "limit_order_gtc_sell" \in Fns(result[t].calls)
        /\ "publish" \notin Fns(result[t].calls)

(* C8 *)

NotificationFailed == responses["publish"] \in {Raise, Ret(None)}
PlacedEntries == {"buy_order_placed", "sell_order_placed"}
\* the last log entry is the order placed, written after the notification's
LoggedPlacedAfterNotification(lg) ==
    /\ Len(lg) >= 2
    /\ lg[Len(lg)] \in PlacedEntries
    /\ lg[Len(lg) - 1] = "sns_notification_sent"

\* C8: when an order has been placed and the notification transport fails
\* (raises or returns None), on the buy path and on the sell path alike the
\* invocation makes exactly the one order call and no call after the
\* notification's, writes the "order placed" entry after the notification
\* attempt, and returns normally.
Thm_C8_NotificationFailureIsNotFatal ==
    \A t \in Traders :
        (Done(t) /\ "publish" \in Fns(result[t].calls) /\ NotificationFailed) =>
            /\ result[t].outcome = "returned"
            /\ CountOf(result[t].calls, OrderFns) = 1
            /\ CountOf(result[t].calls, {"publish"}) = 1
            /\ result[t].calls[Len(result[t].calls)].fn = "publish"
            /\ LoggedPlacedAfterNotification(result[t].log)
            /\ ~Has(result[t].log, "error_in_execute_strategy")
            /\ ~Has(result[t].log, "error_placing_buy_order")

\* a buy order was placed, the transport raised, and the invocation ended
Wit_C8_BuyPlacedTransportRaised ==
    \E t \in Traders :
        /\ Done(t)
        /\ responses["publish"] = Raise
        /\ "publish" \in Fns(result[t].calls)
        /\ "fiat_limit_buy" \in Fns(result[t].calls)
        /\ Has(result[t].log, "sns_publish_failed")
        /\ Has(result[t].log, "buy_order_placed")

(* C9 *)

NoChannel(t) == sns_topic_arn[t] \in {None, PyStr(<<>>)}
NotifierEntries == {"sns_publish_failed", "sns_publish_ok", "sns_notification_sent"}
WithoutPublish(cs) == SelectSeq(cs, LAMBDA c : c.fn # "publish")
WithoutNotifierEntries(lg) == SelectSeq(lg, LAMBDA e : e \notin NotifierEntries)

\* C9: a trader constructed without a channel (sns_topic_arn None or empty)
\* never publishes, its invocation returns normally, and the calls it makes to
\* the risk and exchange clients (arguments included, so the order placed) and
\* the log entries it writes are those of any other trader given the same
\* answers, the notifier's own aside.
Thm_C9_NoChannelNoNotification ==
    \A t \in Traders : NoChannel(t) =>
        /\ (cur = t => "publish" \notin Fns(calls))
        /\ Done(t) =>
            /\ "publish" \notin Fns(result[t].calls)
            /\ result[t].outcome = "returned"
            /\ \A u \in Traders : Done(u) =>
                /\ WithoutPublish(result[u].calls) = result[t].calls
                /\ WithoutNotifierEntries(result[u].log) = result[t].log

\* a trader with an empty topic and one with a topic both placed the sell
\* order; only the second published
Wit_C9_EmptyTopicBesideConfigured ==
    \E t, u \in Traders :
        /\ sns_topic_arn[t] = PyStr(<<>>) /\ ~NoChannel(u)
        /\ Done(t) /\ Done(u)
        /\ Has(result[t].log, "sell_order_placed")
        /\ "publish" \in Fns(result[u].calls)
        /\ "publish" \notin Fns(result[t].calls)

(* C10 *)

BuyCallsOf(cs) == {i \in 1..Len(cs) : cs[i].fn = "fiat_limit_buy"}
HasPositiveDirective ==
    /\ HasDirective
    /\ ActionAnswered # None
    /\ Magnitude > 0

\* C10: with magnitude > 0, any casing of 'buy' makes exactly one
\* fiat_limit_buy call, spending the magnitude at price multiplier 0.995, and
\* no balance, product or sell call; any casing of 'sell' takes the sell path
\* (the balance lookup) and makes no fiat_limit_buy call; any other action
\* makes no exchange call and sends no notification.
Thm_C10_DispatchCaseInsensitiveExclusive ==
    \A t \in Traders : (Done(t) /\ HasPositiveDirective) =>
        LET cs == result[t].calls
        IN  /\ IsCasingOf(ActionAnswered.s, BuyStr) =>
                /\ Cardinality(BuyCallsOf(cs)) = 1
                /\ \A i \in BuyCallsOf(cs) :
                    /\ StrNat(cs[i].args.fiat_amount) = Magnitude
                    /\ cs[i].args.price_multiplier = "0.995"
                    /\ cs[i].args.product_id = responses["input"].val.product_id
                /\ Fns(cs) \cap {"get_crypto_balance", "get_product",
                                 "limit_order_gtc_sell"} = {}
            /\ IsCasingOf(ActionAnswered.s, SellStr) =>
                /\ "get_crypto_balance" \in Fns(cs)
                /\ "fiat_limit_buy" \notin Fns(cs)
            /\ (~IsCasingOf(ActionAnswered.s, BuyStr) /\ ~IsCasingOf(ActionAnswered.s, SellStr)) =>
                /\ Fns(cs) \subseteq LookupFns
                /\ Has(result[t].log, "unknown_action")

\* an invocation ended on the buy path after the action "BUY"
Wit_C10_UpperCaseBuy ==
    \E t \in Traders :
        /\ Done(t)
        /\ HasPositiveDirective
        /\ ActionAnswered = PyStr(<<"B", "U", "Y">>)
        /\ "fiat_limit_buy" \in Fns(result[t].calls)

====
